---------------------------- MODULE Spec2Model ----------------------------
(***************************************************************************)
(* The HEPNames rule set of inspire_dojson (hepnames/rules.py) run by the  *)
(* dispatch engine: a pass walks the fields of an input record in order,   *)
(* calls the rule registered for each field with the accumulator           *)
(* (`output`, the rule's `self`) and stores the rule's result under the    *)
(* rule's output key.                                                      *)
(*                                                                         *)
(* Representation of Python values:                                        *)
(*   - a string the code lower-cases, upper-cases, matches or concatenates *)
(*     is a sequence of one-character strings ("ab" is <<"a", "b">>);      *)
(*   - a string the code only compares or copies is a TLA+ string;         *)
(*   - None, where a string is expected, is the sequence <<"None">>, which *)
(*     is no string because "None" is not one character;                   *)
(*   - a dict is a function from its keys; {} is the empty function <<>>;  *)
(*     a key that is absent is not in the DOMAIN;                          *)
(*   - a one-or-many MARC value (a scalar or a list/tuple of scalars) is   *)
(*     the list force_list makes of it.                                    *)
(***************************************************************************)
EXTENDS Integers, Sequences, FiniteSets, TLC

VARIABLES
    direction,  \* "decode" (registry hepnames) or "encode" (hepnames2marc)
    blob,       \* the input record of the running pass: a sequence of fields
    pos,        \* index in blob of the next field to dispatch
    output,     \* the accumulator of the running pass (the rules' `self`)
    raised,     \* TRUE once a rule raised: the pass ended with the exception
    finished    \* the accumulators of the passes completed before this one

vars == <<direction, blob, pos, output, raised, finished>>

-----------------------------------------------------------------------------
(* Bounds of the model. *)

MaxFields980 == 2
MaxOcc980 == 3
MaxNames == 2
MaxOcc693 == 2
MaxOcc035 == 2
MaxOcc970 == 3
MaxOcc701 == 2
MaxOcc371 == 2
MaxCodes == 3

-----------------------------------------------------------------------------
(* Strings. *)

None == <<"None">>

\* None, where a dict is expected
NoneDict == [none |-> TRUE]

Lowers == <<"a","b","c","d","e","f","g","h","i","j","k","l","m",
            "n","o","p","q","r","s","t","u","v","w","x","y","z">>

Uppers == <<"A","B","C","D","E","F","G","H","I","J","K","L","M",
            "N","O","P","Q","R","S","T","U","V","W","X","Y","Z">>

Digits == {"0","1","2","3","4","5","6","7","8","9"}

Letters == {Lowers[i] : i \in DOMAIN Lowers} \cup {Uppers[i] : i \in DOMAIN Uppers}

\* The upper-case letter of each lower-case letter, and the reverse
ToUpper == [c \in {Lowers[i] : i \in DOMAIN Lowers} |->
               Uppers[CHOOSE i \in DOMAIN Lowers : Lowers[i] = c]]

ToLower == [c \in {Uppers[i] : i \in DOMAIN Uppers} |->
               Lowers[CHOOSE i \in DOMAIN Uppers : Uppers[i] = c]]

UpperChar(c) == IF c \in DOMAIN ToUpper THEN ToUpper[c] ELSE c

LowerChar(c) == IF c \in DOMAIN ToLower THEN ToLower[c] ELSE c

\* str.upper() and str.lower()
Upper(s) == [i \in 1..Len(s) |-> UpperChar(s[i])]

Lower(s) == [i \in 1..Len(s) |-> LowerChar(s[i])]

\* s.startswith(p)
startswith(s, p) == Len(s) >= Len(p) /\ SubSeq(s, 1, Len(p)) = p

\* str.isdigit()
isdigit(s) == s # <<>> /\ \A i \in 1..Len(s) : s[i] \in Digits

\* int(s) of a string of digits.  A Python int is represented by its decimal
\* digits without leading zeros (what str() gives back), so that an int, a
\* string and None compare.
RECURSIVE int(_)
int(s) == IF Len(s) > 1 /\ s[1] = "0" THEN int(Tail(s)) ELSE s

\* inspire_utils.helpers.maybe_int: int(el), None when int() raises
\* (TypeError for None, ValueError for a string that is no number)
maybe_int(el) == IF el # None /\ isdigit(el) THEN int(el) ELSE None

-----------------------------------------------------------------------------
(* Dicts and the helpers of inspire_utils / inspire_dojson.utils. *)

\* d.get(k, default)
Get(d, k, default) == IF k \in DOMAIN d THEN d[k] ELSE default

\* d[k] = v
Put(d, k, v) == [x \in DOMAIN d \cup {k} |-> IF x = k THEN v ELSE d[x]]

\* force_list(d.get(k)): the list of the values of a one-or-many subfield,
\* [] when the subfield is absent (force_list(None) == [])
force_list(d, k) == IF k \in DOMAIN d THEN d[k] ELSE <<>>

\* force_single_element(d.get(k, default)): the first element of the
\* subfield's list; the default when the subfield is absent
force_single_element(d, k, default) ==
    IF k \in DOMAIN d /\ d[k] # <<>> THEN d[k][1] ELSE default

\* inspire_dojson.utils.get_record_ref: the reference to record `recid` of
\* collection `endpoint`, None for recid None.  A reference is the sequence
\* <<"$ref", endpoint>> \o recid: two references are equal iff collection
\* and id are.
get_record_ref(recid, endpoint) ==
    IF recid = None THEN None ELSE <<"$ref", endpoint>> \o recid

\* inspire_utils.date.normalize_date: the ISO form of a date, None for
\* None.  Four digits are a year, which is its own ISO form; no other form
\* of date is in the model.
normalize_date(date) ==
    IF date # None /\ isdigit(date) /\ Len(date) = 4 THEN date ELSE None

\* inspire_dojson.utils.normalize_rank: the rank of a rank code, None for
\* None or an empty code, OTHER for a code that names no rank
normalize_rank(rank) ==
    IF rank = None \/ rank = <<>> THEN None
    ELSE IF Upper(rank) \in {<<"P","D">>, <<"P","O","S","T","D","O","C">>} THEN <<"P","O","S","T","D","O","C">>
    ELSE IF Upper(rank) = <<"S","E","N","I","O","R">> THEN <<"S","E","N","I","O","R">>
    ELSE <<"O","T","H","E","R">>

\* inspire_dojson.utils.get_recid_from_ref: the id of a reference, None for
\* None
get_recid_from_ref(ref) ==
    IF ref = None THEN None ELSE SubSeq(ref, 3, Len(ref))

-----------------------------------------------------------------------------
(* The dispatch engine. *)

\* What a rule hands back: the accumulator with the rule's side effects, the
\* return value, whether that value is None, and whether the rule raised.
Returned(self, ret) == [self |-> self, ret |-> ret, isNone |-> FALSE, raised |-> FALSE]

Raised(self) == [self |-> self, ret |-> None, isNone |-> TRUE, raised |-> TRUE]

\* The engine's merge of a rule's result into the accumulator: a non-null
\* result is stored at the rule's declared output key, over whatever the key
\* held; the side effects the rule wrote are in r.self already.
Merge(name, r) == IF r.isNone THEN r.self ELSE Put(r.self, name, r.ret)

\* One step of the pass: the rule of field blob[pos] has run with result r.
Dispatch(name, r) ==
    /\ raised' = r.raised
    /\ output' = IF r.raised THEN output ELSE Merge(name, r)
    /\ pos' = pos + 1
    /\ UNCHANGED <<direction, blob, finished>>

\* The pass has a field left to dispatch, and it is one with tag `key`.
AtField(dir, key) ==
    /\ direction = dir
    /\ ~raised
    /\ pos <= Len(blob)
    /\ blob[pos].key = key

PassDone == ~raised /\ pos > Len(blob)

\* Sequences over S of length lo..hi
SeqsOf(S, lo, hi) == UNION {[1..n -> S] : n \in lo..hi}

\* The occurrences of the first n fields, in order
RECURSIVE Occurrences(_, _)
Occurrences(fields, n) ==
    IF n = 0 THEN <<>> ELSE Occurrences(fields, n - 1) \o fields[n].value

\* The input records of a decode pass that hold only fields of tag `key`,
\* with occurrences from Occ: one to maxFields fields (the same tag with
\* different indicators makes several fields), each of one to maxOcc
\* occurrences
Blobs(key, Occ, maxFields, maxOcc) ==
    SeqsOf({[key |-> key, value |-> v] : v \in SeqsOf(Occ, 1, maxOcc)}, 1, maxFields)

\* The input records that hold the occurrences `occs` of tag `key` as one
\* field, or as two fields (the tag with two different indicators)
Splits(key, occs) ==
    {<<[key |-> key, value |-> occs]>>}
    \cup {<<[key |-> key, value |-> SubSeq(occs, 1, c)],
             [key |-> key, value |-> SubSeq(occs, c + 1, Len(occs))]>> :
           c \in 1..(Len(occs) - 1)}

\* The records made of record b and field f, put anywhere in it
WithField(b, f) ==
    {SubSeq(b, 1, c) \o <<f>> \o SubSeq(b, c + 1, Len(b)) : c \in 0..Len(b)}

\* The orders the keys of a dict may be walked in
Orders(S) ==
    {o \in [1..Cardinality(S) -> S] : \A i, j \in DOMAIN o : o[i] = o[j] => i = j}

\* The pass is over; the next one starts: its input record is the
\* accumulator of the pass that ended, its fields in some order, and it runs
\* in direction `dir`.
NextPass(dir) ==
    /\ PassDone
    /\ \E o \in Orders(DOMAIN output) :
          blob' = [i \in DOMAIN o |-> [key |-> o[i], value |-> output[o[i]]]]
    /\ direction' = dir
    /\ pos' = 1
    /\ output' = <<>>
    /\ finished' = Append(finished, output)
    /\ UNCHANGED raised

\* hepnames2marc.do(record) of the record a decode pass made
encode_decoded ==
    /\ direction = "decode"
    /\ Len(finished) = 0
    /\ NextPass("encode")

\* hepnames.do(marc) of the record that encode pass made
decode_encoded ==
    /\ direction = "encode"
    /\ Len(finished) = 1
    /\ NextPass("decode")

\* The state a pass over one of the records of B starts in
StartPass(dir, B) ==
    /\ direction = dir
    /\ blob \in B
    /\ pos = 1
    /\ output = <<>>
    /\ raised = FALSE
    /\ finished = <<>>

-----------------------------------------------------------------------------
(* 980: deleted, with stub as its side effect. *)

S_DELETED == <<"D","E","L","E","T","E","D">>

S_USEFUL == <<"U","S","E","F","U","L">>

_is_deleted(value) == Upper(force_single_element(value, "c", <<>>)) = S_DELETED

_is_stub(value) == ~(Upper(force_single_element(value, "a", <<>>)) = S_USEFUL)

\* The loop of `deleted` over the occurrences value[i..]; d and s are the
\* truth values of the locals `deleted` and `stub` on entry.
RECURSIVE deleted_loop(_, _, _, _)
deleted_loop(value, i, d, s) ==
    IF i > Len(value) THEN [deleted |-> d, stub |-> s]
    ELSE deleted_loop(value, i + 1, (~d) /\ _is_deleted(value[i]),
                                    (~s) /\ _is_stub(value[i]))

\* self.get(k) of a flag, as a truth value: None (the key is absent) is false
flag(self, k) == IF k \in DOMAIN self THEN self[k] ELSE FALSE

deleted(self, value) ==
    LET r == deleted_loop(value, 1, flag(self, "deleted"), flag(self, "stub"))
    IN  Returned(Put(self, "stub", r.stub), r.deleted)

deleted_rule ==
    /\ AtField("decode", "980")
    /\ Dispatch("deleted", deleted(output, blob[pos].value))

\* 980 occurrences: with and without the deletion marker `c` and the
\* usefulness marker `a`, in either case
Occ980 ==
    { ("c" :> <<S_DELETED>>),
      ("c" :> <<Lower(S_DELETED)>>) @@ ("a" :> <<S_USEFUL>>),
      ("a" :> <<Lower(S_USEFUL)>>),
      ("a" :> <<S_DELETED>>),
      ("c" :> << <<"x">> >>) }

InitDeleted == StartPass("decode", Blobs("980", Occ980, MaxFields980, MaxOcc980))

NextDeleted == deleted_rule

SpecDeleted == InitDeleted /\ [][NextDeleted]_vars

\* The occurrences of the 980 fields dispatched so far, in order
Seen980 == Occurrences(blob, pos - 1)

\* C1: each flag of the 980 rule, once an occurrence has made it true, is
\* true after all later occurrences.  The flags start false, so a flag has
\* become true as soon as one occurrence dispatched so far carries the
\* marker (c = DELETED for deleted, a # USEFUL for stub).
C1_FlagsNeverReset ==
    pos > 1 =>
        /\ (\E i \in DOMAIN Seen980 : _is_deleted(Seen980[i])) => output["deleted"]
        /\ (\E i \in DOMAIN Seen980 : _is_stub(Seen980[i])) => output["stub"]

\* The three deletion occurrences [not-DELETED, DELETED, not-DELETED] of C1
C1_Witness ==
    /\ pos = 2
    /\ Len(blob[1].value) = 3
    /\ ~_is_deleted(blob[1].value[1])
    /\ _is_deleted(blob[1].value[2])
    /\ ~_is_deleted(blob[1].value[3])

-----------------------------------------------------------------------------
(* 693: experiments. *)

S_current == <<"c","u","r","r","e","n","t">>

\* recids or [None] * len(names)
recids_or_nones(names, recids) ==
    IF recids # <<>> THEN recids ELSE [i \in 1..Len(names) |-> None]

\* zip(a, b): as long as the shorter of the two
zip(a, b) ==
    [i \in 1..(IF Len(a) <= Len(b) THEN Len(a) ELSE Len(b)) |-> <<a[i], b[i]>>]

_get_json_experiments(marc_dict) ==
    LET start_year == maybe_int(Get(marc_dict, "s", None))
        end_year == maybe_int(Get(marc_dict, "d", None))
        names == force_list(marc_dict, "e")
        recids == force_list(marc_dict, "0")
        name_recs == zip(names, recids_or_nones(names, recids))
    IN  [i \in 1..Len(name_recs) |->
            LET record == get_record_ref(name_recs[i][2], "experiments")
            IN  [curated_relation |-> record # None,
                 current |-> Lower(Get(marc_dict, "z", <<>>)) = S_current,
                 end_year |-> end_year,
                 name |-> name_recs[i][1],
                 record |-> record,
                 start_year |-> start_year]]

\* The loop of `experiments` over values[i..], extending json_experiments
RECURSIVE experiments_loop(_, _, _)
experiments_loop(values, i, json_experiments) ==
    IF i > Len(values) THEN json_experiments
    ELSE experiments_loop(values, i + 1,
            IF DOMAIN values[i] # {}
            THEN json_experiments \o _get_json_experiments(values[i])
            ELSE json_experiments)

experiments(self, values) ==
    Returned(self, experiments_loop(values, 1, Get(self, "experiments", <<>>)))

experiments_rule ==
    /\ AtField("decode", "693")
    /\ Dispatch("experiments", experiments(output, blob[pos].value))

ExperimentNames == <<"ATLAS", "CMS", "LHCb", "ALICE">>

RecidPool == << <<"7">>, <<"0","8">>, <<"9">>, <<"1","0">> >>

\* The subfield k with the values of `list`; no subfield for no value
Sub(k, list) == IF list = <<>> THEN <<>> ELSE (k :> list)

\* 693 occurrences: n names, k reference ids, with and without the years
\* and the current marker
Occ693 ==
    { Sub("e", SubSeq(ExperimentNames, 1, n)) @@ Sub("0", SubSeq(RecidPool, 1, k))
        @@ s @@ d @@ z :
        n \in 0..MaxNames, k \in 0..MaxNames,
        s \in {<<>>, ("s" :> <<"2","0","0","1">>)},
        d \in {<<>>, ("d" :> <<"n","o","w">>)},
        z \in {<<>>, ("z" :> <<"C","u","r","r","e","n","t">>)} }

InitExperiments == StartPass("decode", Blobs("693", Occ693, 1, MaxOcc693))

NextExperiments == experiments_rule

SpecExperiments == InitExperiments /\ [][NextExperiments]_vars

\* What C2 says one occurrence decodes to: one entry per name, in name
\* order, with the occurrence's years and current marker, and the reference
\* of the i-th id where there is one
C2_Entries(occ) ==
    LET names == force_list(occ, "e")
        recids == force_list(occ, "0")
    IN  [i \in 1..Len(names) |->
            LET record == IF i <= Len(recids)
                          THEN get_record_ref(recids[i], "experiments")
                          ELSE None
            IN  [curated_relation |-> record # None,
                 current |-> Lower(Get(occ, "z", <<>>)) = S_current,
                 end_year |-> maybe_int(Get(occ, "d", None)),
                 name |-> names[i],
                 record |-> record,
                 start_year |-> maybe_int(Get(occ, "s", None))]]

\* A 693 field of one occurrence with no more reference ids than names has
\* been decoded
C2_Case ==
    /\ pos = 2
    /\ Len(blob[1].value) = 1
    /\ Len(force_list(blob[1].value[1], "0")) <= Len(force_list(blob[1].value[1], "e"))

\* C2: one 693 occurrence with n names and k <= n reference ids decodes to
\* exactly n entries in name order, each with the shared years and current
\* marker, entry i with the reference of the i-th id when i <= k and with no
\* reference otherwise.
C2_OneEntryPerName ==
    C2_Case => output["experiments"] = C2_Entries(blob[1].value[1])

\* An occurrence with two names and one reference id has been decoded
C2_Witness ==
    /\ C2_Case
    /\ Len(force_list(blob[1].value[1], "e")) = 2
    /\ Len(force_list(blob[1].value[1], "0")) = 1

-----------------------------------------------------------------------------
(* 035: ids, and its inverse ids2marc (which also writes 970). *)

S_CERN == <<"C","E","R","N">>

S_KAKEN == <<"K","A","K","E","N">>

S_INSPIRE == <<"I","N","S","P","I","R","E">>

S_BAI == <<"B","A","I">>

S_INSPIRE_BAI == <<"I","N","S","P","I","R","E"," ","B","A","I">>

S_INSPIRE_ID == <<"I","N","S","P","I","R","E"," ","I","D">>

S_SPIRES == <<"S","P","I","R","E","S">>

\* The pairs <<key, value>> of IDS_MAP
IDS_MAP ==
    { <<<<"A","R","X","I","V">>,
        <<"A","R","X","I","V">>>>,
      <<<<"B","A","I">>,
        <<"I","N","S","P","I","R","E"," ","B","A","I">>>>,
      <<<<"C","E","R","N">>,
        <<"C","E","R","N">>>>,
      <<<<"D","E","S","Y">>,
        <<"D","E","S","Y">>>>,
      <<<<"G","O","O","G","L","E","S","C","H","O","L","A","R">>,
        <<"G","O","O","G","L","E","S","C","H","O","L","A","R">>>>,
      <<<<"I","N","S","P","I","R","E">>,
        <<"I","N","S","P","I","R","E"," ","I","D">>>>,
      <<<<"K","A","K","E","N">>,
        <<"K","A","K","E","N">>>>,
      <<<<"O","R","C","I","D">>,
        <<"O","R","C","I","D">>>>,
      <<<<"R","E","S","E","A","R","C","H","I","D">>,
        <<"R","E","S","E","A","R","C","H","E","R","I","D">>>>,
      <<<<"R","E","S","E","A","R","C","H","E","R","I","D">>,
        <<"R","E","S","E","A","R","C","H","E","R","I","D">>>>,
      <<<<"S","L","A","C">>,
        <<"S","L","A","C">>>>,
      <<<<"S","C","O","P","U","S">>,
        <<"S","C","O","P","U","S">>>>,
      <<<<"V","I","A","F">>,
        <<"V","I","A","F">>>>,
      <<<<"W","I","K","I","P","E","D","I","A">>,
        <<"W","I","K","I","P","E","D","I","A">>>> }

\* IDS_MAP.get(value.get('9', '').upper())
_get_schema(value) ==
    LET code == Upper(Get(value, "9", <<>>))
    IN  IF \E kv \in IDS_MAP : kv[1] = code
        THEN (CHOOSE kv \in IDS_MAP : kv[1] = code)[2]
        ELSE None

\* \w of a regular expression
WordChars == Letters \cup Digits \cup {"_"}

\* INSPIRE_BAI.match(s), INSPIRE_BAI = '(\w+\.)+\d+': a prefix s[1..k] made
\* of groups of word characters, each closed by a dot, with a digit after it
INSPIRE_BAI_match(s) ==
    \E k \in 2..(Len(s) - 1) :
        /\ s[k] = "."
        /\ s[1] # "."
        /\ \A i \in 1..k : s[i] \in WordChars \cup {"."}
        /\ \A i \in 1..(k - 1) : ~(s[i] = "." /\ s[i + 1] = ".")
        /\ s[k + 1] \in Digits

\* LOOKS_LIKE_CERN.match(s),
\* LOOKS_LIKE_CERN = '^\d+$|^CER[MN]?-|^CNER-|^CVERN-' ignoring case
LOOKS_LIKE_CERN_match(s) ==
    \/ isdigit(s)
    \/ \E p \in {<<"c","e","r","-">>, <<"c","e","r","m","-">>, <<"c","e","r","n","-">>,
                 <<"c","n","e","r","-">>, <<"c","v","e","r","n","-">>} :
          startswith(Lower(s), p)

\* NON_DIGIT.sub('', s), NON_DIGIT = '[^\d]+'
NON_DIGIT_sub(s) == SelectSeq(s, LAMBDA c : c \in Digits)

_guess_schema_from_value(a_value) ==
    IF a_value = None THEN None
    ELSE IF INSPIRE_BAI_match(a_value) THEN S_INSPIRE_BAI
    ELSE None

_try_to_correct_value(schema, a_value) ==
    IF a_value = None THEN a_value
    ELSE IF schema = S_CERN /\ LOOKS_LIKE_CERN_match(a_value)
    THEN S_CERN \o <<"-">> \o NON_DIGIT_sub(a_value)
    ELSE IF schema = S_KAKEN THEN S_KAKEN \o <<"-">> \o a_value
    ELSE a_value

\* The body of `ids` for one occurrence: the entry, or None
ids_value(value) ==
    LET a_value == force_single_element(value, "a", None)
        schema0 == _get_schema(value)
        schema == IF schema0 = None THEN _guess_schema_from_value(a_value)
                  ELSE schema0
        corrected == _try_to_correct_value(schema, a_value)
    IN  IF schema # None /\ schema # <<>> /\ corrected # None /\ corrected # <<>>
        THEN [schema |-> schema, value |-> corrected]
        ELSE NoneDict

\* `ids` under utils.for_each_value: the list of the results, one per
\* occurrence; nothing is read from the accumulator
ids(self, value) ==
    Returned(self, [i \in 1..Len(value) |-> ids_value(value[i])])

ids_rule ==
    /\ AtField("decode", "035")
    /\ Dispatch("ids", ids(output, blob[pos].value))

\* The loop of ids2marc over value[i..]; r holds result_035, result_970 and
\* whether value.get raised (an element that is None has no get)
RECURSIVE ids2marc_loop(_, _, _)
ids2marc_loop(value, i, r) ==
    IF i > Len(value) \/ r.raised THEN r
    ELSE IF value[i] = NoneDict THEN [r EXCEPT !.raised = TRUE]
    ELSE LET id_ == Get(value[i], "value", None)
             schema == Get(value[i], "schema", None)
         IN  ids2marc_loop(value, i + 1,
                IF schema = S_SPIRES
                THEN [r EXCEPT !.result_970 = Append(@, ("a" :> <<id_>>))]
                ELSE IF schema = S_INSPIRE_ID
                THEN [r EXCEPT !.result_035 =
                        Append(@, ("9" :> S_INSPIRE) @@ ("a" :> <<id_>>))]
                ELSE IF schema = S_INSPIRE_BAI
                THEN [r EXCEPT !.result_035 =
                        Append(@, ("9" :> S_BAI) @@ ("a" :> <<id_>>))]
                ELSE [r EXCEPT !.result_035 =
                        Append(@, ("9" :> schema) @@ ("a" :> <<id_>>))])

ids2marc(self, value) ==
    LET r == ids2marc_loop(value, 1,
                [result_035 |-> Get(self, "035", <<>>),
                 result_970 |-> Get(self, "970", <<>>),
                 raised |-> FALSE])
    IN  IF r.raised THEN Raised(self)
        ELSE Returned(Put(self, "970", r.result_970), r.result_035)

ids2marc_rule ==
    /\ AtField("encode", "ids")
    /\ Dispatch("035", ids2marc(output, blob[pos].value))

-----------------------------------------------------------------------------
(* 970: new_record, with the SPIRES ids as its side effect. *)

S_authors == "authors"

\* The SPIRES entries of the `a` values ids_a[j..], appended to ids
RECURSIVE append_spires(_, _, _)
append_spires(ids_a, j, ids_) ==
    IF j > Len(ids_a) THEN ids_
    ELSE append_spires(ids_a, j + 1,
            Append(ids_, [schema |-> S_SPIRES, value |-> ids_a[j]]))

\* new_record_of, were the reference reset by an occurrence without linkage
new_record_of_last_only(value, new_record_) ==
    LET new_recid == force_single_element(value, "d", <<>>)
    IN  IF new_recid # <<>> THEN get_record_ref(new_recid, S_authors)
        ELSE <<>>

\* What one occurrence's linkage subfield `d` makes of the local new_record
new_record_of(value, new_record_) ==
    LET new_recid == force_single_element(value, "d", <<>>)
    IN  IF new_recid # <<>> THEN get_record_ref(new_recid, S_authors)
        ELSE new_record_

\* The loop of `new_record` over the occurrences value[i..]
RECURSIVE new_record_loop(_, _, _, _)
new_record_loop(value, i, new_record_, ids_) ==
    IF i > Len(value) THEN [new_record |-> new_record_, ids |-> ids_]
    ELSE new_record_loop(value, i + 1,
            new_record_of(value[i], new_record_),
            append_spires(force_list(value[i], "a"), 1, ids_))

new_record(self, value) ==
    LET r == new_record_loop(value, 1, Get(self, "new_record", <<>>),
                                       Get(self, "ids", <<>>))
    IN  Returned(Put(self, "ids", r.ids), r.new_record)

new_record_rule ==
    /\ AtField("decode", "970")
    /\ Dispatch("new_record", new_record(output, blob[pos].value))

-----------------------------------------------------------------------------
(* The round trip of the identifiers: decode 035, encode, decode again. *)

\* The scheme codes of subfield 9: every key of IDS_MAP, one of them in
\* lower case, and one that IDS_MAP does not have
Codes035 == {kv[1] : kv \in IDS_MAP} \cup {Lower(S_CERN), <<"X">>}

\* The values of subfield a: a number, a CERN id, a BAI, a word
Values035 == { <<"1","2">>, <<"C","E","R","N","-","3","x","4">>,
               <<"J",".","D","o","e",".","1">>, <<"a","b">> }

Occ035 ==
    { nine @@ a :
        nine \in {<<>>} \cup {("9" :> c) : c \in Codes035},
        a \in {<<>>} \cup {("a" :> <<v>>) : v \in Values035} }

InitIds == StartPass("decode", Blobs("035", Occ035, 1, MaxOcc035))

NextIds ==
    \/ ids_rule
    \/ encode_decoded
    \/ ids2marc_rule
    \/ decode_encoded
    \/ new_record_rule

SpecIds == InitIds /\ [][NextIds]_vars

\* The round trip is over: decoded, encoded and decoded again
RoundTripDone == Len(finished) = 2 /\ PassDone

\* C3: every {schema, value} entry `ids` decodes from 035 is what decoding
\* its ids2marc encoding gives back.
C3_IdsRoundTrip ==
    RoundTripDone => output["ids"] = finished[1]["ids"]

\* A round trip of a KAKEN entry, whose value the first decoding prefixed
C3_Witness ==
    /\ RoundTripDone
    /\ \E i \in DOMAIN finished[1]["ids"] :
          /\ finished[1]["ids"][i] # NoneDict
          /\ finished[1]["ids"][i].schema = S_KAKEN

-----------------------------------------------------------------------------
(* A decode pass over a record with 970 fields and, maybe, a 035 field. *)

\* 970 occurrences: with and without a legacy id `a` and a linkage `d`
Occ970 ==
    { <<>>,
      ("a" :> << <<"S","1">> >>),
      ("d" :> << <<"5">> >>),
      ("d" :> << <<"6">> >>),
      ("a" :> << <<"S","1">> >>) @@ ("d" :> << <<"6">> >>),
      ("a" :> << <<"S","2">>, <<"S","3">> >>) @@ ("d" :> << <<"5">> >>) }

\* 035 fields: a CERN id and a BAI without scheme code; an ORCID
Fields035 ==
    { [key |-> "035",
       value |-> << ("9" :> S_CERN) @@ ("a" :> << <<"1","2">> >>),
                    ("a" :> << <<"J",".","D","o","e",".","1">> >>) >>],
      [key |-> "035",
       value |-> << ("9" :> <<"O","R","C","I","D">>) @@ ("a" :> << <<"0","0">> >>) >>] }

Blobs970 == UNION {Splits("970", occs) : occs \in SeqsOf(Occ970, 1, MaxOcc970)}

BlobsLegacy ==
    Blobs970 \cup UNION {WithField(b, f) : b \in Blobs970, f \in Fields035}

InitLegacy == StartPass("decode", BlobsLegacy)

NextLegacy ==
    \/ ids_rule
    \/ new_record_rule

SpecLegacy == InitLegacy /\ [][NextLegacy]_vars

\* The fields of tag `key` among the first n of the record
FieldsOf(key, n) == {i \in 1..n : blob[i].key = key}

\* The entries of the accumulator's ids list
IdsEntries == {output["ids"][i] : i \in DOMAIN Get(output, "ids", <<>>)}

Seen970 == Occurrences(SelectSeq(SubSeq(blob, 1, pos - 1), LAMBDA f : f.key = "970"),
                       Cardinality(FieldsOf("970", pos - 1)))

HasD(occ) == force_single_element(occ, "d", <<>>) # <<>>

\* What C6 says new_record is after the first n fields: what the linkage of
\* the LAST occurrence of the 970 field set, if it has one; no earlier
\* occurrence of the field counts
RECURSIVE C6_LastOnly(_)
C6_LastOnly(n) ==
    IF n = 0 THEN <<>>
    ELSE IF blob[n].key = "970" /\ HasD(blob[n].value[Len(blob[n].value)])
    THEN get_record_ref(blob[n].value[Len(blob[n].value)]["d"][1], S_authors)
    ELSE C6_LastOnly(n - 1)

\* C6 as claimed: only the `d` of the last occurrence the rule is given sets
\* new_record; the `d` of an earlier occurrence never does.
C6_LastOccurrenceOnly ==
    FieldsOf("970", pos - 1) # {} => output["new_record"] = C6_LastOnly(pos - 1)

\* The SPIRES entries of the `a` values of the occurrences occs, in order
RECURSIVE SpiresOf(_)
SpiresOf(occs) ==
    IF occs = <<>> THEN <<>>
    ELSE LET as == force_list(occs[1], "a")
         IN  [j \in DOMAIN as |-> [schema |-> S_SPIRES, value |-> as[j]]]
             \o SpiresOf(Tail(occs))

\* C6, amended: new_record is the reference of the `d` of the last
\* occurrence THAT CARRIES ONE among the 970 occurrences dispatched (an
\* earlier occurrence's `d` stands when no later occurrence has one), {} when
\* none does; and ids ends with the SPIRES entries of every `a` of every
\* occurrence of the 970 field just dispatched.
C6_LastLinkageWins ==
    FieldsOf("970", pos - 1) # {} =>
        /\ IF \E i \in DOMAIN Seen970 : HasD(Seen970[i])
           THEN LET last == CHOOSE i \in DOMAIN Seen970 :
                                /\ HasD(Seen970[i])
                                /\ \A j \in DOMAIN Seen970 : HasD(Seen970[j]) => j <= i
                IN  output["new_record"] = get_record_ref(Seen970[last]["d"][1], S_authors)
           ELSE output["new_record"] = <<>>
        /\ blob[pos - 1].key = "970" =>
              LET new == SpiresOf(blob[pos - 1].value)
                  ids_ == output["ids"]
              IN  /\ Len(ids_) >= Len(new)
                  /\ SubSeq(ids_, Len(ids_) - Len(new) + 1, Len(ids_)) = new

\* A 970 field of several occurrences has been decoded: an earlier one has
\* a linkage and legacy ids, the last one has no linkage
C6_Witness ==
    /\ pos = 2
    /\ blob[1].key = "970"
    /\ Len(blob[1].value) >= 2
    /\ HasD(blob[1].value[1])
    /\ "a" \in DOMAIN blob[1].value[1]
    /\ ~HasD(blob[1].value[Len(blob[1].value)])

-----------------------------------------------------------------------------
(* 701: advisors, and its inverse advisors2marc. *)

S_other == <<"o","t","h","e","r">>

\* The pairs <<key, value>> of DEGREE_TYPES_MAP
DEGREE_TYPES_MAP ==
    { <<<<"B","a","c","h","e","l","o","r">>, <<"b","a","c","h","e","l","o","r">>>>,
      <<<<"U","G">>, <<"b","a","c","h","e","l","o","r">>>>,
      <<<<"M","A","S">>, <<"m","a","s","t","e","r">>>>,
      <<<<"m","a","s","t","e","r">>, <<"m","a","s","t","e","r">>>>,
      <<<<"M","a","s","t","e","r">>, <<"m","a","s","t","e","r">>>>,
      <<<<"P","h","D">>, <<"p","h","d">>>>,
      <<<<"P","H","D">>, <<"p","h","d">>>> }

\* DEGREE_TYPES_MAP.get(_degree_type, 'other')
degree_type_of(_degree_type) ==
    IF \E kv \in DEGREE_TYPES_MAP : kv[1] = _degree_type
    THEN (CHOOSE kv \in DEGREE_TYPES_MAP : kv[1] = _degree_type)[2]
    ELSE S_other

\* The body of `advisors` for one occurrence
advisors_value(value) ==
    LET _degree_type == force_single_element(value, "g", None)
        recid == force_single_element(value, "x", None)
    IN  [name |-> Get(value, "a", None),
         degree_type |-> degree_type_of(_degree_type),
         record |-> get_record_ref(recid, S_authors),
         curated_relation |-> Get(value, "y", None) = <<"1">>]

\* `advisors` under utils.for_each_value
advisors(self, value) ==
    Returned(self, [i \in 1..Len(value) |-> advisors_value(value[i])])

advisors_rule ==
    /\ AtField("decode", "701")
    /\ Dispatch("advisors", advisors(output, blob[pos].value))

\* A value written to a one-or-many subfield: None makes no element
OneOrNone(v) == IF v = None THEN <<>> ELSE <<v>>

\* The body of advisors2marc for one entry
advisors2marc_value(value) ==
    [a |-> Get(value, "name", None),
     g |-> OneOrNone(Get(value, "degree_type", None)),
     x |-> OneOrNone(get_recid_from_ref(Get(value, "record", None)))]

\* advisors2marc under utils.for_each_value
advisors2marc(self, value) ==
    Returned(self, [i \in 1..Len(value) |-> advisors2marc_value(value[i])])

advisors2marc_rule ==
    /\ AtField("encode", "advisors")
    /\ Dispatch("701", advisors2marc(output, blob[pos].value))

\* The degree labels of subfield g: every key of DEGREE_TYPES_MAP, the
\* fallback value and a label the map does not have
Labels701 == {kv[1] : kv \in DEGREE_TYPES_MAP} \cup {S_other, <<"H","a","b","i","l">>}

Occ701 ==
    { g @@ a @@ x @@ y :
        g \in {<<>>} \cup {("g" :> <<l>>) : l \in Labels701},
        a \in {<<>>, ("a" :> <<"D","o","e">>)},
        x \in {<<>>, ("x" :> << <<"4","2">> >>)},
        y \in {<<>>, ("y" :> <<"1">>)} }

InitAdvisors == StartPass("decode", Blobs("701", Occ701, 1, MaxOcc701))

NextAdvisors ==
    \/ advisors_rule
    \/ encode_decoded
    \/ advisors2marc_rule
    \/ decode_encoded

SpecAdvisors == InitAdvisors /\ [][NextAdvisors]_vars

\* C7: an advisor entry decoded from 701, encoded with advisors2marc and
\* decoded again has the degree_type it had.
C7_DegreeTypeRoundTrip ==
    RoundTripDone =>
        \A i \in DOMAIN finished[1]["advisors"] :
            output["advisors"][i].degree_type = finished[1]["advisors"][i].degree_type

\* A round trip of an entry of degree type phd
C7_Witness ==
    /\ RoundTripDone
    /\ \E i \in DOMAIN finished[1]["advisors"] :
          finished[1]["advisors"][i].degree_type = <<"p","h","d">>

-----------------------------------------------------------------------------
(* 371: positions, and its inverse positions2marc. *)

S_institutions == "institutions"

\* The loop of `positions` over the `z` values recid_or_status[j..]; loc
\* holds the locals curated, current and recid
RECURSIVE recid_or_status_loop(_, _, _)
recid_or_status_loop(recid_or_status, j, loc) ==
    IF j > Len(recid_or_status) THEN loc
    ELSE LET el == recid_or_status[j]
         IN  recid_or_status_loop(recid_or_status, j + 1,
                IF Lower(el) = S_current
                THEN [loc EXCEPT !.current = TRUE]
                ELSE IF isdigit(el)
                THEN [loc EXCEPT !.curated = TRUE, !.recid = int(el)]
                ELSE [loc EXCEPT !.curated = FALSE])

\* The `z` values of the occurrences occs, in order
RECURSIVE CodesOfZ(_)
CodesOfZ(occs) ==
    IF occs = <<>> THEN <<>>
    ELSE force_list(occs[1], "z") \o CodesOfZ(Tail(occs))

\* The body of `positions` for one occurrence
positions_value(value) ==
    LET loc == recid_or_status_loop(force_list(value, "z"), 1,
                    [curated |-> FALSE, current |-> FALSE, recid |-> None])
        institution == [name |-> Get(value, "a", None),
                        record |-> get_record_ref(loc.recid, S_institutions),
                        curated_relation |-> loc.curated]
        _rank == Get(value, "r", None)
    IN  [institution |-> IF institution.name # None /\ institution.name # <<>>
                         THEN institution ELSE NoneDict,
         emails |-> force_list(value, "m"),
         old_emails |-> force_list(value, "o"),
         _rank |-> _rank,
         rank |-> normalize_rank(_rank),
         start_date |-> normalize_date(Get(value, "s", None)),
         end_date |-> normalize_date(Get(value, "t", None)),
         current |-> loc.current]

\* positions_entry, were the locals curated, current and recid set once for
\* all occurrences and not once per occurrence: the i-th entry sees the `z`
\* values of the occurrences before it too
positions_entry_shared_flags(values, i) ==
    LET zs == CodesOfZ(SubSeq(values, 1, i))
    IN  positions_value(IF zs = <<>> THEN values[i]
                        ELSE [k \in DOMAIN values[i] \cup {"z"} |->
                                 IF k = "z" THEN zs ELSE values[i][k]])

\* The i-th result of `positions` under utils.for_each_value: the body runs
\* once per occurrence, on that occurrence
positions_entry(values, i) == positions_value(values[i])

positions(self, value) ==
    Returned(self, [i \in 1..Len(value) |-> positions_entry(value, i)])

positions_rule ==
    /\ AtField("decode", "371")
    /\ Dispatch("positions", positions(output, blob[pos].value))

\* The pairs <<key, value>> of RANK_MAP
RANK_MAP ==
    { <<<<"J","U","N","I","O","R">>, <<"J","U","N","I","O","R">>>>,
      <<<<"M","A","S","T","E","R">>, <<"M","A","S">>>>,
      <<<<"P","H","D">>, <<"P","H","D">>>>,
      <<<<"P","O","S","T","D","O","C">>, <<"P","D">>>>,
      <<<<"S","E","N","I","O","R">>, <<"S","E","N","I","O","R">>>>,
      <<<<"S","T","A","F","F">>, <<"S","T","A","F","F">>>>,
      <<<<"U","N","D","E","R","G","R","A","D","U","A","T","E">>, <<"U","G">>>>,
      <<<<"V","I","S","I","T","O","R">>, <<"V","I","S","I","T","O","R">>>> }

_get_r_value(value) ==
    LET rank == Get(value, "rank", None)
    IN  IF rank # None /\ rank # <<>> /\ \E kv \in RANK_MAP : kv[1] = rank
        THEN (CHOOSE kv \in RANK_MAP : kv[1] = rank)[2]
        ELSE None

\* The body of positions2marc for one entry.  value.get('institution', {})
\* is the entry's institution when the key is there, also when it is None:
\* None has no get, and the rule raises AttributeError.
positions2marc_value(value) ==
    LET institution == Get(value, "institution", <<>>)
    IN  IF institution = NoneDict THEN [raised |-> TRUE]
        ELSE [raised |-> FALSE,
              a |-> Get(institution, "name", None),
              r |-> _get_r_value(value),
              s |-> Get(value, "start_date", None),
              t |-> Get(value, "end_date", None),
              m |-> Get(value, "emails", <<>>),
              o |-> Get(value, "old_emails", <<>>),
              z |-> IF Get(value, "current", FALSE)
                    THEN <<<<"C","u","r","r","e","n","t">>>> ELSE <<>>]

\* positions2marc under utils.for_each_value
positions2marc(self, value) ==
    LET groups == [i \in 1..Len(value) |-> positions2marc_value(value[i])]
    IN  IF \E i \in DOMAIN groups : groups[i].raised THEN Raised(self)
        ELSE Returned(self, groups)

positions2marc_rule ==
    /\ AtField("encode", "positions")
    /\ Dispatch("371", positions2marc(output, blob[pos].value))

\* The `z` values of a 371 occurrence: a record id, the current marker,
\* both, and values that are neither
Z371 == { << <<"1","2","3">> >>,
          << <<"c","u","r","r","e","n","t">> >>,
          << <<"1","2","3">>, <<"C","u","r","r","e","n","t">> >>,
          << <<"0","7">>, <<"x">> >>,
          << <<"x">>, <<"4","5">> >> }

\* 371 occurrences: with and without the institution name `a`, with and
\* without rank, dates and e-mail addresses
Occ371 ==
    { z @@ a @@ rest :
        z \in {<<>>} \cup {("z" :> v) : v \in Z371},
        a \in {<<>>, ("a" :> <<"C","E","R","N">>)},
        rest \in {<<>>,
                  ("r" :> <<"P","D">>) @@ ("s" :> <<"2","0","0","1">>) @@ ("t" :> <<"n","o","w">>)
                    @@ ("m" :> << <<"a","@","b">> >>)} }

InitPositions == StartPass("decode", Blobs("371", Occ371, 1, MaxOcc371))

NextPositions ==
    \/ positions_rule
    \/ encode_decoded
    \/ positions2marc_rule

SpecPositions == InitPositions /\ [][NextPositions]_vars

\* What the `z` values zs of one occurrence say, read off the values alone:
\* the indices of the values that are not the current marker
NotCurrent(zs) == {j \in DOMAIN zs : Lower(zs[j]) # S_current}

\* ... the occurrence is current iff a value is the marker
Z_current(zs) == \E j \in DOMAIN zs : Lower(zs[j]) = S_current

\* ... curated iff the last value that is not the marker is a number
Z_curated(zs) ==
    \E j \in NotCurrent(zs) : isdigit(zs[j]) /\ \A k \in NotCurrent(zs) : k <= j

\* ... and the record id is the last value that is a number
Z_recid(zs) ==
    IF \E j \in DOMAIN zs : isdigit(zs[j])
    THEN int(zs[CHOOSE j \in DOMAIN zs :
                    isdigit(zs[j]) /\ \A k \in DOMAIN zs : isdigit(zs[k]) => k <= j])
    ELSE None

\* A 371 field has been decoded, in the first pass
C8_Case == direction = "decode" /\ pos = 2 /\ finished = <<>>

\* C8: a 371 field of n occurrences decodes to n entries in input order, and
\* the institution reference, the curated flag and the current flag of each
\* entry come from the `z` values of its own occurrence alone (the
\* institution, with reference and curated flag, is there when the
\* occurrence names one in `a`).
C8_OwnFlagsOnly ==
    C8_Case =>
        /\ Len(output["positions"]) = Len(blob[1].value)
        /\ \A i \in DOMAIN blob[1].value :
              LET occ == blob[1].value[i]
                  zs == force_list(occ, "z")
                  entry == output["positions"][i]
              IN  /\ entry.current = Z_current(zs)
                  /\ IF "a" \in DOMAIN occ
                     THEN /\ entry.institution # NoneDict
                          /\ entry.institution.name = occ["a"]
                          /\ entry.institution.record
                                = get_record_ref(Z_recid(zs), S_institutions)
                          /\ entry.institution.curated_relation = Z_curated(zs)
                     ELSE entry.institution = NoneDict

\* The example of C8: an occurrence with z = 123, then one with z = current,
\* decoded to a first entry with the reference to institution 123, curated
\* and not current, and a second entry with no reference, not curated and
\* current
C8_Witness ==
    /\ C8_Case
    /\ Len(blob[1].value) = 2
    /\ "a" \in DOMAIN blob[1].value[1] /\ "a" \in DOMAIN blob[1].value[2]
    /\ force_list(blob[1].value[1], "z") = << <<"1","2","3">> >>
    /\ force_list(blob[1].value[2], "z") = << <<"c","u","r","r","e","n","t">> >>
    /\ output["positions"][1].institution.record = <<"$ref", S_institutions, "1", "2", "3">>
    /\ output["positions"][1].institution.curated_relation
    /\ ~output["positions"][1].current
    /\ output["positions"][2].institution.record = None
    /\ ~output["positions"][2].institution.curated_relation
    /\ output["positions"][2].current

\* C10: positions2marc does not raise on an entry `positions` decoded, and
\* the group it makes of an entry with no institution has a null `a`.
C10_EncodeWithoutInstitution ==
    direction = "encode" =>
        /\ ~raised
        /\ pos = 2 =>
              \A i \in DOMAIN finished[1]["positions"] :
                  finished[1]["positions"][i].institution = NoneDict
                      => output["371"][i].a = None

\* The entry of an occurrence with no `a` has been handed to positions2marc
C10_Witness ==
    /\ direction = "encode"
    /\ pos = 2
    /\ \E i \in DOMAIN finished[1]["positions"] :
          finished[1]["positions"][i].institution = NoneDict

-----------------------------------------------------------------------------
(* 65017: arxiv_categories, with inspire_categories as its side effect, and
   the two rules that encode the two lists to 65017. *)

S_arXiv == <<"a","r","X","i","v">>

\* The enum of the schema elements/arxiv_categories: three of its
\* categories stand for all
arxiv_categories_enum == << <<"h","e","p","-","t","h">>, <<"g","r","-","q","c">>, <<"m","a","t","h",".","A","G">> >>

\* The categories arXiv has renamed: the pairs <<old name, name>>
_NEW_CATEGORIES == { << <<"a","l","g","-","g","e","o","m">>, <<"m","a","t","h",".","A","G">> >> }

\* inspire_dojson.utils.arxiv.valid_arxiv_categories: the categories of the
\* schema and the old names of the renamed ones
valid_arxiv_categories ==
    arxiv_categories_enum
    \o << <<"a","l","g","-","g","e","o","m">> >>

\* inspire_dojson.utils.arxiv.normalize_arxiv_category: the name of a
\* category today
normalize_arxiv_category(category) ==
    IF \E kv \in _NEW_CATEGORIES : kv[1] = Lower(category)
    THEN (CHOOSE kv \in _NEW_CATEGORIES : kv[1] = Lower(category))[2]
    ELSE category

\* load_schema('elements/inspire_field')['properties']['term']['enum']
valid_inspire_categories ==
    << <<"A","c","c","e","l","e","r","a","t","o","r","s">>,
       <<"A","s","t","r","o","p","h","y","s","i","c","s">>,
       <<"C","o","m","p","u","t","i","n","g">>,
       <<"D","a","t","a"," ","A","n","a","l","y","s","i","s"," ","a","n","d"," ","S","t","a","t","i","s","t","i","c","s">>,
       <<"E","x","p","e","r","i","m","e","n","t","-","H","E","P">>,
       <<"E","x","p","e","r","i","m","e","n","t","-","N","u","c","l">>,
       <<"G","e","n","e","r","a","l"," ","P","h","y","s","i","c","s">>,
       <<"G","r","a","v","i","t","a","t","i","o","n"," ","a","n","d"," ","C","o","s","m","o","l","o","g","y">>,
       <<"I","n","s","t","r","u","m","e","n","t","a","t","i","o","n">>,
       <<"L","a","t","t","i","c","e">>,
       <<"M","a","t","h"," ","a","n","d"," ","M","a","t","h"," ","P","h","y","s","i","c","s">>,
       <<"O","t","h","e","r">>,
       <<"P","h","e","n","o","m","e","n","o","l","o","g","y","-","H","E","P">>,
       <<"T","h","e","o","r","y","-","H","E","P">>,
       <<"T","h","e","o","r","y","-","N","u","c","l">> >>

\* The pairs <<key, value>> of field_codes_to_inspire_categories
field_codes_to_inspire_categories ==
    { <<<<"a">>, <<"A","s","t","r","o","p","h","y","s","i","c","s">>>>,
      <<<<"b">>, <<"A","c","c","e","l","e","r","a","t","o","r","s">>>>,
      <<<<"c">>, <<"C","o","m","p","u","t","i","n","g">>>>,
      <<<<"e">>, <<"E","x","p","e","r","i","m","e","n","t","-","H","E","P">>>>,
      <<<<"g">>, <<"G","r","a","v","i","t","a","t","i","o","n"," ","a","n","d"," ","C","o","s","m","o","l","o","g","y">>>>,
      <<<<"i">>, <<"I","n","s","t","r","u","m","e","n","t","a","t","i","o","n">>>>,
      <<<<"l">>, <<"L","a","t","t","i","c","e">>>>,
      <<<<"m">>, <<"M","a","t","h"," ","a","n","d"," ","M","a","t","h"," ","P","h","y","s","i","c","s">>>>,
      <<<<"n">>, <<"T","h","e","o","r","y","-","N","u","c","l">>>>,
      <<<<"o">>, <<"O","t","h","e","r">>>>,
      <<<<"p">>, <<"P","h","e","n","o","m","e","n","o","l","o","g","y","-","H","E","P">>>>,
      <<<<"q">>, <<"G","e","n","e","r","a","l"," ","P","h","y","s","i","c","s">>>>,
      <<<<"t">>, <<"T","h","e","o","r","y","-","H","E","P">>>>,
      <<<<"x">>, <<"E","x","p","e","r","i","m","e","n","t","-","N","u","c","l">>>> }

\* The elements of a list
Elems(list) == {list[i] : i \in DOMAIN list}

_is_arxiv(category) == category \in Elems(valid_arxiv_categories)

_is_inspire(category) == category \in Elems(valid_inspire_categories)

\* The first element of list that equals a_value ignoring case, as the for
\* loops of _normalize find it
first_match(list, a_value) ==
    list[CHOOSE i \in DOMAIN list :
            /\ Lower(list[i]) = Lower(a_value)
            /\ \A k \in 1..(i - 1) : Lower(list[k]) # Lower(a_value)]

_normalize(a_value) ==
    IF \E c \in Elems(valid_arxiv_categories) : Lower(a_value) = Lower(c)
    THEN normalize_arxiv_category(first_match(valid_arxiv_categories, a_value))
    ELSE IF \E c \in Elems(valid_inspire_categories) : Lower(a_value) = Lower(c)
    THEN first_match(valid_inspire_categories, a_value)
    ELSE IF \E kv \in field_codes_to_inspire_categories : kv[1] = Lower(a_value)
    THEN (CHOOSE kv \in field_codes_to_inspire_categories : kv[1] = Lower(a_value))[2]
    ELSE None

\* route, were the elif an else: what is no arXiv category is taken for
\* an INSPIRE term
route_else_inspire(normalized_a_value, lists) ==
    IF _is_arxiv(normalized_a_value)
    THEN [lists EXCEPT !.arxiv_categories = Append(@, normalized_a_value)]
    ELSE [lists EXCEPT !.inspire_categories = Append(@, [term |-> normalized_a_value])]

\* The if / elif of the inner loop: where a normalized value goes; lists
\* holds the locals arxiv_categories and inspire_categories
route(normalized_a_value, lists) ==
    IF _is_arxiv(normalized_a_value)
    THEN [lists EXCEPT !.arxiv_categories = Append(@, normalized_a_value)]
    ELSE IF _is_inspire(normalized_a_value)
    THEN [lists EXCEPT !.inspire_categories = Append(@, [term |-> normalized_a_value])]
    ELSE lists

\* The inner loop, over the `a` values a_values[j..] of one occurrence
RECURSIVE a_values_loop(_, _, _)
a_values_loop(a_values, j, lists) ==
    IF j > Len(a_values) THEN lists
    ELSE a_values_loop(a_values, j + 1, route(_normalize(a_values[j]), lists))

\* The outer loop, over the occurrences value[i..]
RECURSIVE arxiv_categories_loop(_, _, _)
arxiv_categories_loop(value, i, lists) ==
    IF i > Len(value) THEN lists
    ELSE arxiv_categories_loop(value, i + 1,
            a_values_loop(force_list(value[i], "a"), 1, lists))

arxiv_categories(self, value) ==
    LET lists == arxiv_categories_loop(value, 1,
                    [arxiv_categories |-> Get(self, "arxiv_categories", <<>>),
                     inspire_categories |-> Get(self, "inspire_categories", <<>>)])
    IN  Returned(Put(self, "inspire_categories", lists.inspire_categories),
                 lists.arxiv_categories)

arxiv_categories_rule ==
    /\ AtField("decode", "65017")
    /\ Dispatch("arxiv_categories", arxiv_categories(output, blob[pos].value))

\* arxiv_categories2marc under utils.for_each_value; nothing is read from
\* the accumulator
arxiv_categories2marc(self, value) ==
    Returned(self, [i \in 1..Len(value) |->
                      ("2" :> S_arXiv) @@ ("a" :> OneOrNone(value[i]))])

arxiv_categories2marc_rule ==
    /\ AtField("encode", "arxiv_categories")
    /\ Dispatch("65017", arxiv_categories2marc(output, blob[pos].value))

\* inspire_categories2marc under utils.for_each_value; nothing is read from
\* the accumulator
inspire_categories2marc(self, value) ==
    Returned(self, [i \in 1..Len(value) |->
                      ("2" :> S_INSPIRE) @@ ("a" :> OneOrNone(Get(value[i], "term", None)))])

inspire_categories2marc_rule ==
    /\ AtField("encode", "inspire_categories")
    /\ Dispatch("65017", inspire_categories2marc(output, blob[pos].value))

\* The category codes of subfield a: arXiv categories in either case, a
\* renamed one, an INSPIRE term in lower case, a legacy letter in upper
\* case, and a letter that is no legacy code
Codes65017 ==
    { <<"h","e","p","-","t","h">>, <<"G","R","-","Q","C">>, <<"a","l","g","-","g","e","o","m">>,
      <<"l","a","t","t","i","c","e">>, <<"T">>, <<"z">> }

\* The input records that hold the codes `codes`: in one occurrence; in one
\* occurrence each (after an occurrence without `a`); in two fields
Blobs65017(codes) ==
    { <<[key |-> "65017", value |-> << ("a" :> codes) >>]>>,
      <<[key |-> "65017",
         value |-> << <<>> >> \o [i \in DOMAIN codes |-> ("a" :> <<codes[i]>>)]]>> }
    \cup {<<[key |-> "65017", value |-> << ("a" :> SubSeq(codes, 1, c)) >>],
            [key |-> "65017", value |-> << ("a" :> SubSeq(codes, c + 1, Len(codes))) >>]>> :
          c \in 1..(Len(codes) - 1)}

InitCategories ==
    StartPass("decode", UNION {Blobs65017(codes) : codes \in SeqsOf(Codes65017, 1, MaxCodes)})

NextCategories ==
    \/ arxiv_categories_rule
    \/ encode_decoded
    \/ arxiv_categories2marc_rule
    \/ inspire_categories2marc_rule

SpecCategories == InitCategories /\ [][NextCategories]_vars

\* The codes of the `a` values of the occurrences occs, in order
RECURSIVE CodesOf(_)
CodesOf(occs) ==
    IF occs = <<>> THEN <<>>
    ELSE force_list(occs[1], "a") \o CodesOf(Tail(occs))

\* The codes of the 65017 fields dispatched so far
SeenCodes == CodesOf(Occurrences(blob, pos - 1))

\* A code is one of the arXiv vocabulary, ignoring case
InArxivVocabulary(code) ==
    \E c \in Elems(valid_arxiv_categories) : Lower(c) = Lower(code)

\* A code is not of the arXiv vocabulary but stands for an INSPIRE term:
\* it is the term, ignoring case, or its legacy letter
InInspireVocabulary(code) ==
    /\ ~InArxivVocabulary(code)
    /\ \/ \E c \in Elems(valid_inspire_categories) : Lower(c) = Lower(code)
       \/ \E kv \in field_codes_to_inspire_categories : kv[1] = Lower(code)

\* C9: `arxiv_categories` does not raise, and every code goes to at most one
\* list: its category to arxiv_categories alone when it is of the arXiv
\* vocabulary, its term to inspire_categories alone when it stands for an
\* INSPIRE term, and nowhere when it is of no vocabulary and no legacy
\* letter.  So the two lists are the categories and the terms of these
\* codes, in input order, and nothing else.
C9_RoutedToOneList ==
    (direction = "decode" /\ pos > 1) =>
        LET arxiv == SelectSeq(SeenCodes, InArxivVocabulary)
            inspire == SelectSeq(SeenCodes, InInspireVocabulary)
        IN  /\ ~raised
            /\ output["arxiv_categories"] = [i \in DOMAIN arxiv |-> _normalize(arxiv[i])]
            /\ output["inspire_categories"]
                  = [i \in DOMAIN inspire |-> [term |-> _normalize(inspire[i])]]
            /\ \A c \in Elems(output["arxiv_categories"]) :
                  /\ c \in Elems(arxiv_categories_enum)
                  /\ [term |-> c] \notin Elems(output["inspire_categories"])
            /\ \A t \in Elems(output["inspire_categories"]) :
                  t.term \in Elems(valid_inspire_categories)

\* The codes hep-th and z (and a third) have been decoded: hep-th is in
\* arxiv_categories, and the lists hold no entry for z
C9_Witness ==
    /\ direction = "decode"
    /\ pos > 1
    /\ <<"h","e","p","-","t","h">> \in Elems(SeenCodes)
    /\ <<"z">> \in Elems(SeenCodes)
    /\ <<"h","e","p","-","t","h">> \in Elems(output["arxiv_categories"])
    /\ Len(output["arxiv_categories"]) + Len(output["inspire_categories"]) < Len(SeenCodes)

\* The record encoded has categories of both kinds
C5_Case ==
    /\ direction = "encode"
    /\ PassDone
    /\ finished[1]["arxiv_categories"] # <<>>
    /\ finished[1]["inspire_categories"] # <<>>

=============================================================================
